---- MODULE Spec2Model ----
(***************************************************************************)
(* Brand Response prototype: the six-step Streamlit workflow of app.py,    *)
(* the completion-service helpers of utils/ai_helper.py and the session    *)
(* log of utils/logger.py.                                                 *)
(*                                                                         *)
(* One action of the model is one user interaction: the script run that    *)
(* Streamlit starts for it, every log write of that run, and the re-run    *)
(* requested by st.rerun().  Python values that may have several shapes    *)
(* (None / str / DataFrame, list / str) are tagged records; a dict is a    *)
(* function from its keys.                                                 *)
(***************************************************************************)
EXTENDS Integers, Sequences, FiniteSets, TLC

\* ------------------------------------------------------------------ bounds
\* The wall clock has one-second resolution (strftime "%Y%m%d_%H%M%S");
\* the model stops it after MaxClock seconds.
MaxClock == 1
\* The log files together hold at most MaxDetour entries beyond their
\* longest common prefixes with a reference run (ReferenceRuns): an
\* interaction that would exceed this is not taken.
MaxDetour == 1
\* A completion text given to a helper called on its own has at most MaxText
\* tokens.
MaxText == 4
\* most rows below the header of a markdown table
MaxRows == 3
\* most rows of the small frames the enrichment handler is run on
MaxCount == 6

VARIABLES
    step,               \* st.session_state.step
    client_data,        \* st.session_state.client_data
    business_context,   \* st.session_state.business_context
    selected_variables, \* st.session_state.selected_variables
    enriched_data,      \* st.session_state.enriched_data
    insights,           \* st.session_state.insights
    logger,             \* st.session_state.logger (a SessionLogger)
    files,              \* logs/session_<id>.log, by session id
    now,                \* datetime.now(), in whole seconds
    uploaded_file,      \* value of the step-1 st.file_uploader widget
    disk_ok,            \* whether open(log_file, 'a') succeeds
    out,                \* what the last interaction wrote and showed, in order
    probe,              \* the arguments of a helper called on its own
    answer              \* what that call returned

vars == <<step, client_data, business_context, selected_variables,
          enriched_data, insights, logger, files, now, uploaded_file,
          disk_ok, out, probe, answer>>

\* ------------------------------------------------------------ Python values
None == [t |-> "None"]
EmptyDict == [k \in {} |-> 0]

\* dict.get(key, default)
Get(d, key, default) == IF key \in DOMAIN d THEN d[key] ELSE default

\* bool(x) of a dict or of a list
Truthy(d) == DOMAIN d # {}

IsPrefix(s, t) == Len(s) <= Len(t) /\ SubSeq(t, 1, Len(s)) = s

\* a pandas DataFrame: its row count, its column count and, for the columns
\* the statistics read, how many rows hold each value
DataFrame(n, ncols, cols) == [t |-> "df", n |-> n, ncols |-> ncols, cols |-> cols]

IsDataFrame(x) == x.t = "df"

\* ------------------------------------------------------------------ logger
SessionIds == 0..MaxClock

\* datetime.now().strftime("%Y%m%d_%H%M%S")
strftime(clock) == clock

\* one line of the log file
LogEntry(event_type, details) == [event |-> event_type, details |-> details]

\* variant: the file is opened for writing, not for appending
log_event_Truncating(fs, lg, ok, event_type, details) ==
    IF ok
    THEN [fs EXCEPT ![lg.session_id] = <<LogEntry(event_type, details)>>]
    ELSE fs

\* SessionLogger.log_event: append one line to the session's file; a failing
\* write is swallowed
log_event(fs, lg, ok, event_type, details) ==
    IF ok
    THEN [fs EXCEPT ![lg.session_id] = Append(@, LogEntry(event_type, details))]
    ELSE fs

\* SessionLogger.__init__: the id is the clock reading; session_start is
\* logged at once
NewLogger(clock) == [session_id |-> strftime(clock)]

SessionLogger(fs, clock, ok) ==
    log_event(fs, NewLogger(clock), ok, "session_start",
              [session_id |-> strftime(clock)])

\* SessionLogger.read_session_log
read_session_log(fs, lg) == fs[lg.session_id]

\* the frame pd.read_csv builds from a file it accepts
read_csv_frame(file) == DataFrame(file.rows, file.columns, EmptyDict)

\* ------------------------------------------------------- interaction trace
Logged(ok, event_type) == IF ok THEN <<[k |-> "log", a |-> event_type]>> ELSE <<>>
Shown(kind, about) == <<[k |-> kind, a |-> about]>>

\* ------------------------------------------------------------ dict helpers
\* d[key] = value
Put(d, key, value) ==
    [x \in DOMAIN d \cup {key} |-> IF x = key THEN value ELSE d[x]]

\* ------------------------------------------------------------- arithmetic
RECURSIVE GCD(_, _)
GCD(a, b) == IF b = 0 THEN a ELSE GCD(b, a % b)

\* a float that is the quotient of two integers, in lowest terms; x / 0 with
\* numpy operands is nan (0 / 0), never an exception
NaN == [nan |-> TRUE]
Frac(num, den) ==
    IF den = 0 THEN NaN
    ELSE LET g == GCD(num, den) IN
         IF g = 0 THEN [num |-> 0, den |-> 1]
         ELSE [num |-> num \div g, den |-> den \div g]

\* ------------------------------------------------- completion-service text
\* A completion is a sequence of tokens: "FJ" is the fence ```json, "F" the
\* fence ```, "WS" white space, "TXT" prose that is not JSON; every other
\* token is the text of one JSON document, named by the value it parses to.
Fences == {"FJ", "F"}

\* the first index of s holding a token of toks, 0 when there is none
RECURSIVE IndexFrom(_, _, _)
IndexFrom(s, toks, i) ==
    IF i > Len(s) THEN 0
    ELSE IF s[i] \in toks THEN i
    ELSE IndexFrom(s, toks, i + 1)

Contains(s, toks) == IndexFrom(s, toks, 1) # 0

\* s.split(sep)[1].split(close)[0] for fences: what follows the first
\* opener, up to the next closer or the end
Between(s, openers, closers) ==
    LET i == IndexFrom(s, openers, 1)
        j == IndexFrom(s, closers, i + 1)
    IN  SubSeq(s, i + 1, IF j = 0 THEN Len(s) ELSE j - 1)

\* str.strip()
RECURSIVE lstrip(_)
lstrip(s) == IF s # <<>> /\ Head(s) = "WS" THEN lstrip(Tail(s)) ELSE s
RECURSIVE rstrip(_)
rstrip(s) ==
    IF s # <<>> /\ s[Len(s)] = "WS" THEN rstrip(SubSeq(s, 1, Len(s) - 1)) ELSE s
strip(s) == rstrip(lstrip(s))

\* the fence clean-up shared by select_variables_with_ai and
\* analyze_enriched_data ("```json" contains "```", so the elif branch sees
\* no "FJ")
CleanResponse(text) ==
    LET response_text == strip(text) IN
    IF Contains(response_text, {"FJ"})
    THEN strip(Between(response_text, {"FJ"}, Fences))
    ELSE IF Contains(response_text, {"F"})
    THEN strip(Between(response_text, {"F"}, {"F"}))
    ELSE response_text

\* ---- JSON documents the completion service may send for variable selection
GoodVariables ==
    << [variable |-> "AGE", rationale |-> "Age drives the menu", category |-> "demographics"],
       [variable |-> "GOURMET_AFFINITY", rationale |-> "Fine food interest", category |-> "interests"] >>

\* an entry without the key 'rationale' and one with empty strings
SloppyVariables ==
    << [variable |-> "AGE", category |-> "demographics"],
       [variable |-> "", rationale |-> "", category |-> "economic"] >>

\* an entry without the key 'variable'
NamelessVariables ==
    << [rationale |-> "Essential for pricing", category |-> "economic"] >>

PyList(items) == [t |-> "list", items |-> items]
PyStr(s) == [t |-> "str", s |-> s]
PyDict(d) == [t |-> "dict", d |-> d]

VariableDocs == {"V_OK", "V_EMPTY", "V_NOKEY", "V_ARRAY", "V_STR", "V_SLOPPY", "V_NAMELESS"}

\* ---- JSON documents the completion service may send for the insights
InsightFields ==
    [executive_summary |-> "Customers are older than assumed",
     key_findings |-> <<"finding 1", "finding 2", "finding 3">>,
     demographic_surprises |-> <<"surprise 1", "surprise 2">>,
     segments |-> <<"Primary Segment", "Secondary Segment", "Opportunity Segment">>,
     recommendations |-> <<"recommendation 1", "recommendation 2", "recommendation 3">>]

\* statistics invented by the completion service
ForeignStats == [age_median |-> Frac(99, 1)]

InsightDocs == {"I_OK", "I_STATS", "I_TEXT", "I_ARRAY"}

JsonDocs == VariableDocs \cup InsightDocs

\* the value a JSON document parses to
DocValue(doc) ==
    CASE doc = "V_OK"       -> PyDict([selected_variables |-> PyList(GoodVariables)])
      [] doc = "V_EMPTY"    -> PyDict([selected_variables |-> PyList(<<>>)])
      [] doc = "V_NOKEY"    -> PyDict(EmptyDict)
      [] doc = "V_ARRAY"    -> PyList(GoodVariables)
      [] doc = "V_STR"      -> PyDict([selected_variables |-> PyStr("AGE")])
      [] doc = "V_SLOPPY"   -> PyDict([selected_variables |-> PyList(SloppyVariables)])
      [] doc = "V_NAMELESS" -> PyDict([selected_variables |-> PyList(NamelessVariables)])
      [] doc = "I_OK"       -> PyDict(InsightFields)
      [] doc = "I_STATS"    -> PyDict(Put(InsightFields, "raw_stats", ForeignStats))
      [] doc = "I_TEXT"     -> PyDict(Put(InsightFields, "insights_text", "# Executive Summary"))
      [] doc = "I_ARRAY"    -> PyList(<<"finding 1">>)

\* json.loads: exactly one document, nothing around it
json_loads(text) ==
    IF Len(text) = 1 /\ text[1] \in JsonDocs
    THEN [raised |-> FALSE, value |-> DocValue(text[1])]
    ELSE [raised |-> TRUE]

\* client.messages.create: it raises, or it returns a text
Raises == [raised |-> TRUE]
Completion(text) == [raised |-> FALSE, text |-> text]

\* -------------------------------------------------- utils/ai_helper.py
Return(value) == [raised |-> FALSE, value |-> value]

get_fallback_variables ==
    << [variable |-> "AGE", rationale |-> "Core demographic for market segmentation", category |-> "demographics"],
       [variable |-> "INCOME_HH", rationale |-> "Essential for pricing and positioning strategy", category |-> "economic"],
       [variable |-> "EDUCATION", rationale |-> "Indicates sophistication and messaging approach", category |-> "lifestyle"],
       [variable |-> "URBANICITY", rationale |-> "Geographic preferences affect brand positioning", category |-> "lifestyle"],
       [variable |-> "MARITAL_STATUS", rationale |-> "Life stage affects purchasing behavior", category |-> "demographics"],
       [variable |-> "CHILDREN_HH", rationale |-> "Family status impacts product usage patterns", category |-> "demographics"],
       [variable |-> "OCCUPATION_TYPE", rationale |-> "Professional vs blue-collar preferences differ", category |-> "lifestyle"],
       [variable |-> "LIFESTYLE_CLUSTER", rationale |-> "Behavioral segmentation for targeted messaging", category |-> "lifestyle"],
       [variable |-> "HIGH_TECH_AFFINITY", rationale |-> "Technology adoption affects marketing channels", category |-> "interests"],
       [variable |-> "GOURMET_AFFINITY", rationale |-> "Quality appreciation aligns with premium positioning", category |-> "interests"],
       [variable |-> "FITNESS_AFFINITY", rationale |-> "Health consciousness affects product preferences", category |-> "interests"],
       [variable |-> "READING_MAGAZINES", rationale |-> "Media consumption patterns for advertising", category |-> "media"] >>

\* variant: a text that does not deserialize yields no recommendation
select_variables_with_ai_EmptyOnBadText(context, response) ==
    LET parse(result) ==
            IF result.raised THEN Return(PyList(<<>>))
            ELSE IF result.value.t # "dict" THEN Return(PyList(get_fallback_variables))
            ELSE Return(Get(result.value.d, "selected_variables", PyList(<<>>)))
    IN  IF response.raised THEN Return(PyList(get_fallback_variables))
        ELSE parse(json_loads(CleanResponse(response.text)))

\* select_variables_with_ai: the completion call, the fence clean-up,
\* json.loads and result.get("selected_variables", []) all sit in one try;
\* any exception (a non-dict result has no .get) yields the fallback list
select_variables_with_ai(context, response) ==
    LET parse(result) ==
            IF result.raised THEN Return(PyList(get_fallback_variables))
            ELSE IF result.value.t # "dict" THEN Return(PyList(get_fallback_variables))
            ELSE Return(Get(result.value.d, "selected_variables", PyList(<<>>)))
    IN  IF response.raised THEN Return(PyList(get_fallback_variables))
        ELSE parse(json_loads(CleanResponse(response.text)))

\* ---- local statistics of analyze_enriched_data
\* a column is a function from each value to the number of rows holding it
NaAge == -1
NaText == "nan"

RECURSIVE SumOver(_, _)
SumOver(col, values) ==
    IF values = {} THEN 0
    ELSE LET v == CHOOSE x \in values : TRUE
         IN  col[v] + SumOver(col, values \ {v})

\* df['AGE'].median(): the median of the values that are present
median(col) ==
    LET present == {v \in DOMAIN col : v # NaAge /\ col[v] > 0}
        m == SumOver(col, present)
        below(v) == SumOver(col, {w \in present : w < v})
        at(r) == CHOOSE v \in present : below(v) < r /\ r <= below(v) + col[v]
    IN  IF m = 0 THEN NaN
        ELSE IF m % 2 = 1 THEN Frac(at((m + 1) \div 2), 1)
        ELSE Frac(at(m \div 2) + at(m \div 2 + 1), 2)

\* the markers of str.contains('150K|200K|250K'), ('College|Graduate'), ('Urban')
HighIncomeValues == {"150K-199K", "200K-249K", "250K+"}
CollegePlusValues == {"College", "Graduate School"}
UrbanValues == {"Urban"}

\* .str on a column read without a single string (all values missing, read
\* as float64) raises AttributeError; an empty column has dtype object
StrRaises(df, name) ==
    /\ df.n > 0
    /\ \A v \in DOMAIN df.cols[name] : v # NaText => df.cols[name][v] = 0

\* column.str.contains(markers, na=False).sum() / len(df) * 100
ContainsPercent(df, name, markers) ==
    Frac(SumOver(df.cols[name], DOMAIN df.cols[name] \cap markers) * 100, df.n)

AgeStats(df) ==
    LET col == df.cols["AGE"]
        ages == DOMAIN col \ {NaAge}
    IN  [age_median |-> median(col),
         age_ranges |->
            [under_30 |-> Frac(SumOver(col, {v \in ages : v < 30}) * 100, df.n),
             age_30_50 |-> Frac(SumOver(col, {v \in ages : v >= 30 /\ v < 50}) * 100, df.n),
             over_50 |-> Frac(SumOver(col, {v \in ages : v >= 50}) * 100, df.n)]]

\* the stats dict, or the exception of a .str accessor
ComputeStats(df) ==
    LET has(name) == name \in DOMAIN df.cols
        stat(name, key, markers) ==
            IF has(name) THEN key :> ContainsPercent(df, name, markers) ELSE EmptyDict
    IN  IF \E name \in {"PREMIUM_INCOME_HH", "EDUCATION", "URBANICITY"} :
               has(name) /\ StrRaises(df, name)
        THEN [raised |-> TRUE]
        ELSE Return((IF has("AGE") THEN AgeStats(df) ELSE EmptyDict)
                    @@ stat("PREMIUM_INCOME_HH", "high_income_percent", HighIncomeValues)
                    @@ stat("EDUCATION", "college_plus_percent", CollegePlusValues)
                    @@ stat("URBANICITY", "urban_percent", UrbanValues))

\* x > 40 for a float
Over40(x) == IF x = NaN THEN FALSE ELSE x.num > 40 * x.den

get_mock_insights ==
    [executive_summary |-> "Your customer data analysis reveals significant opportunities",
     key_findings |-> <<"Customer demographics differ", "Income levels suggest premium positioning",
                        "Geographic distribution indicates untapped markets">>,
     segments |-> <<"Primary Segment", "Growth Segment", "Niche Segment">>,
     recommendations |-> <<"Adjust brand messaging", "Develop premium service offerings",
                           "Optimize marketing channels">>]

get_mock_insights_with_stats(stats) ==
    [executive_summary |->
        [age_median |-> Get(stats, "age_median", Frac(45, 1)),
         mature |-> Over40(Get(Get(stats, "age_ranges", EmptyDict), "over_50", Frac(0, 1)))],
     key_findings |->
        << Get(stats, "high_income_percent", Frac(25, 1)),
           Get(stats, "college_plus_percent", Frac(60, 1)),
           Get(stats, "urban_percent", Frac(70, 1)) >>,
     segments |-> <<"Affluent Professionals", "Emerging Adults", "Mature Market">>,
     recommendations |-> <<"Leverage high education levels", "Develop urban-focused marketing campaigns",
                           "Create premium offerings">>,
     raw_stats |-> stats]

\* variant: a raw_stats key of the completion is kept
InsightsFromResponse_KeepsForeign(stats, response) ==
    LET store(parsed, mock) ==
            IF parsed.raised THEN mock
            ELSE IF parsed.value.t # "dict" THEN mock
            ELSE IF "raw_stats" \in DOMAIN parsed.value.d THEN parsed.value.d
            ELSE Put(parsed.value.d, "raw_stats", stats)
    IN  IF response.raised THEN get_mock_insights_with_stats(stats)
        ELSE store(json_loads(CleanResponse(response.text)),
                   get_mock_insights_with_stats(stats))

\* the try block of analyze_enriched_data, given the stats: the completion
\* call, the clean-up, json.loads and insights['raw_stats'] = stats (an item
\* assignment a list or a str refuses)
InsightsFromResponse(stats, response) ==
    LET store(parsed, mock) ==
            IF parsed.raised THEN mock
            ELSE IF parsed.value.t # "dict" THEN mock
            ELSE Put(parsed.value.d, "raw_stats", stats)
    IN  IF response.raised THEN get_mock_insights_with_stats(stats)
        ELSE store(json_loads(CleanResponse(response.text)),
                   get_mock_insights_with_stats(stats))

analyze_enriched_data(df, context, variables, response) ==
    LET after(stats) ==
            IF stats.raised THEN [raised |-> TRUE]
            ELSE Return(InsightsFromResponse(stats.value, response))
    IN  after(ComputeStats(df))

generate_customer_insights(data, context, variables, response) ==
    IF data.t = "str" THEN Return(get_mock_insights)
    ELSE IF data.t # "df" THEN Return(get_mock_insights)
    ELSE LET except(insights_) ==
                 IF insights_.raised THEN Return(get_mock_insights) ELSE insights_
         IN  except(analyze_enriched_data(data, context, variables, response))

\* ------------------------------------------------------------- inputs
\* the business_context_form: all seven keys are always stored; the text
\* inputs may be left empty
FullContext ==
    [business_name |-> "Roasted Bean Coffee Co.", industry |-> "Food & Beverage",
     business_model |-> "B2C Retail", target_customer |-> "Young professionals",
     brand_positioning |-> "Premium artisanal coffee",
     goals |-> <<"Understand customer demographics">>, additional_context |-> ""]

BlankContext ==
    [business_name |-> "", industry |-> "Retail", business_model |-> "B2C Retail",
     target_customer |-> "", brand_positioning |-> "", goals |-> <<>>,
     additional_context |-> ""]

BusinessContexts == {FullContext, BlankContext}

\* files a user may drop on the uploader: a CSV with only its header line
\* and a file pd.read_csv rejects (the sample data stands for a CSV with rows)
HeaderOnlyCsv == [name |-> "header_only.csv", parses |-> TRUE, rows |-> 0, columns |-> 5]
BrokenCsv == [name |-> "broken.csv", parses |-> FALSE]

UploadFiles == {HeaderOnlyCsv, BrokenCsv}

NoFile == [name |-> "None"]

\* create_sample_data
create_sample_data == DataFrame(500, 8, EmptyDict)

\* what data/sample_enriched_data.csv may be when step 4 looks for it
AgeColumn == (25 :> 100) @@ (40 :> 200) @@ (60 :> 150) @@ (NaAge :> 30)
IncomeColumn == ("150K-199K" :> 120) @@ ("50K-74K" :> 340) @@ (NaText :> 20)
EducationColumn == ("College" :> 300) @@ ("High School" :> 170) @@ (NaText :> 10)
UrbanicityColumn == ("Urban" :> 240) @@ ("Rural" :> 200) @@ (NaText :> 40)

\* 480 rows with every column the statistics read
SampleEnriched ==
    DataFrame(480, 12, [AGE |-> AgeColumn, PREMIUM_INCOME_HH |-> IncomeColumn,
                        EDUCATION |-> EducationColumn, URBANICITY |-> UrbanicityColumn])
\* more rows than any client file, and only the AGE column
WideEnriched == DataFrame(600, 9, [AGE |-> (35 :> 300) @@ (70 :> 300) @@ (NaAge :> 0)])
\* a URBANICITY column without a single value
HollowEnriched == DataFrame(3, 9, [URBANICITY |-> ("Urban" :> 0) @@ (NaText :> 3)])

SampleFixture == [exists |-> TRUE, parses |-> TRUE, df |-> SampleEnriched]

EnrichedFixtures ==
    { [exists |-> FALSE],
      [exists |-> TRUE, parses |-> FALSE],
      SampleFixture,
      [exists |-> TRUE, parses |-> TRUE, df |-> WideEnriched] }

\* completions for the variable-selection prompt, one of each kind the
\* handler of step 3 treats differently
GoodCompletion == Completion(<<"FJ", "WS", "V_OK", "WS", "F">>)

VariableResponses ==
    { Raises, GoodCompletion, Completion(<<"V_EMPTY">>), Completion(<<"V_STR">>),
      Completion(<<"V_SLOPPY">>), Completion(<<"V_NAMELESS">>) }

\* completions for the insights prompt
InsightResponses ==
    { Raises, Completion(<<"I_OK">>), Completion(<<"I_TEXT">>),
      Completion(<<"FJ", "WS", "I_STATS", "WS", "F">>), Completion(<<"I_ARRAY">>) }

\* completions for the summary prompt: the length of the stripped text
SummaryResponses == { Raises, [raised |-> FALSE, length |-> 900] }

\* ------------------------------------------------- details of the events
UploadDetails(df, filename, data_source) ==
    [records |-> df.n, columns |-> df.ncols, filename |-> filename,
     data_source |-> data_source]

ContextDetails(context) ==
    [business_name |-> context.business_name,
     industry |-> context.industry,
     business_model |-> context.business_model,
     goals_count |-> Len(context.goals),
     has_target_description |-> context.target_customer # "",
     has_positioning |-> context.brand_positioning # ""]

SelectionSuccessDetails(variables, context) ==
    [variables_selected |-> Len(variables),
     categories |-> {Get(variables[i], "category", "unknown") : i \in 1..Len(variables)},
     business_industry |-> Get(context, "industry", "Unknown"),
     ai_success |-> TRUE,
     schema_integrated |-> TRUE]

SelectionFailureDetails(error_type) ==
    [ai_success |-> FALSE, error_type |-> error_type, fallback_used |-> TRUE,
     variables_selected |-> 3]

EnrichmentDetails(cd, variables, permille, source) ==
    [records_processed |-> cd.n,
     variables_added |-> Len(variables),
     match_rate_percent |-> permille,
     enrichment_source |-> source]

InsightsDetails(ins, context) ==
    [records_analyzed |-> Get(ins, "records_analyzed", 0),
     variables_analyzed |-> Get(ins, "variables_analyzed", 0),
     ai_analysis_success |-> TRUE,
     business_industry |-> Get(context, "industry", "Unknown")]

\* f"{match_rate:.1%}" in tenths of a percent, for
\* match_rate = min(enriched, client) / client
Min(a, b) == IF a < b THEN a ELSE b

RoundHalfEven(num, den) ==
    LET q == num \div den
        r == num % den
    IN  IF 2 * r < den THEN q
        ELSE IF 2 * r > den THEN q + 1
        ELSE IF q % 2 = 0 THEN q ELSE q + 1

\* variant: the ratio without min()
MatchRatePermille_Unclamped(enriched, client) == RoundHalfEven(enriched * 1000, client)

\* min(len(enriched_df), len(client_data)) / len(client_data), formatted
MatchRatePermille(enriched, client) == RoundHalfEven(Min(enriched, client) * 1000, client)

\* ------------------------------------------------------ the detour bound
\* Reference runs: the sample data, or the header-only file, taken through
\* the steps with FullContext, the good completion and the 480-row fixture.
\* (Continuing from step 1 with a file attached logs the upload a second
\* time.)
ReferenceRunsOf(id) ==
    LET start == LogEntry("session_start", [session_id |-> id])
        context == LogEntry("business_context_captured", ContextDetails(FullContext))
        selection == LogEntry("ai_variable_selection",
                              SelectionSuccessDetails(GoodVariables, FullContext))
        upload == LogEntry("data_upload",
                           UploadDetails(read_csv_frame(HeaderOnlyCsv), HeaderOnlyCsv.name,
                                         "uploaded_file"))
    IN  IF id # 0 THEN { << start >> } ELSE
        { << start,
             LogEntry("data_upload",
                      UploadDetails(create_sample_data, "sample_coffee_shop_data",
                                    "sample_generated")),
             context, selection,
             LogEntry("data_enrichment_complete",
                      EnrichmentDetails(create_sample_data, GoodVariables,
                                        MatchRatePermille(SampleEnriched.n, create_sample_data.n),
                                        "identity_graph_simulation")),
             LogEntry("insights_generated", InsightsDetails(EmptyDict, FullContext)) >>,
          << start, upload, upload, context, selection >> }

ReferenceRuns == [id \in SessionIds |-> ReferenceRunsOf(id)]

RECURSIVE CommonPrefix(_, _)
CommonPrefix(s, t) ==
    IF s = <<>> \/ t = <<>> THEN 0
    ELSE IF Head(s) # Head(t) THEN 0
    ELSE 1 + CommonPrefix(Tail(s), Tail(t))

Detour(log, id) ==
    LET longest(shared) == CHOOSE n \in shared : \A m \in shared : m <= n
    IN  Len(log) - longest({CommonPrefix(log, run) : run \in ReferenceRuns[id]})

RECURSIVE DetoursUpTo(_, _)
DetoursUpTo(fs, id) ==
    IF id < 0 THEN 0 ELSE Detour(fs[id], id) + DetoursUpTo(fs, id - 1)

LogRoom(fs) == DetoursUpTo(fs, MaxClock) <= MaxDetour

\* ------------------------------------------------------------------ main
\* main, lines 58-73, on a session state without keys
Init ==
    /\ step = 1
    /\ client_data = None
    /\ business_context = EmptyDict
    /\ selected_variables = <<>>
    /\ enriched_data = None
    /\ insights = EmptyDict
    /\ now = 0
    /\ disk_ok = TRUE
    /\ logger = NewLogger(0)
    /\ files = SessionLogger([id \in SessionIds |-> <<>>], 0, TRUE)
    /\ uploaded_file = NoFile
    /\ out = <<>>
    /\ probe = None
    /\ answer = None

\* one second passes
Tick ==
    /\ now < MaxClock
    /\ now' = now + 1
    /\ UNCHANGED <<step, client_data, business_context, selected_variables,
                   enriched_data, insights, logger, files, uploaded_file,
                   disk_ok, out, probe, answer>>

\* pd.read_csv(uploaded_file)
read_csv(file) ==
    IF file.parses THEN Return(read_csv_frame(file)) ELSE [raised |-> TRUE]

\* variant: the parsed file is kept only if its log entry could be written
RunDataUpload_NeedsLog(cd, fs, lg, ok, file) ==
    IF file = NoFile THEN [client_data |-> cd, files |-> fs, out |-> <<>>]
    ELSE LET df == read_csv(file) IN
         IF df.raised \/ ~ok
         THEN [client_data |-> cd,
               files |-> log_event(fs, lg, ok, "data_upload_error", [filename |-> file.name]),
               out |-> Shown("error", "data_upload") \o Logged(ok, "data_upload_error")]
         ELSE [client_data |-> df.value,
               files |-> log_event(fs, lg, ok, "data_upload",
                                   UploadDetails(df.value, file.name, "uploaded_file")),
               out |-> Logged(ok, "data_upload") \o Shown("success", "data_upload")]

\* variant: a file that does not parse empties the client records
RunDataUpload_DropsData(cd, fs, lg, ok, file) ==
    IF file = NoFile THEN [client_data |-> cd, files |-> fs, out |-> <<>>]
    ELSE LET df == read_csv(file) IN
         IF df.raised
         THEN [client_data |-> None,
               files |-> log_event(fs, lg, ok, "data_upload_error", [filename |-> file.name]),
               out |-> Shown("error", "data_upload") \o Logged(ok, "data_upload_error")]
         ELSE [client_data |-> df.value,
               files |-> log_event(fs, lg, ok, "data_upload",
                                   UploadDetails(df.value, file.name, "uploaded_file")),
               out |-> Logged(ok, "data_upload") \o Shown("success", "data_upload")]

\* show_data_upload down to its buttons, for the file the uploader holds:
\* every run of step 1 parses the attached file again and logs again
RunDataUpload(cd, fs, lg, ok, file) ==
    IF file = NoFile THEN [client_data |-> cd, files |-> fs, out |-> <<>>]
    ELSE LET df == read_csv(file) IN
         IF df.raised
         THEN [client_data |-> cd,
               files |-> log_event(fs, lg, ok, "data_upload_error", [filename |-> file.name]),
               out |-> Shown("error", "data_upload") \o Logged(ok, "data_upload_error")]
         ELSE [client_data |-> df.value,
               files |-> log_event(fs, lg, ok, "data_upload",
                                   UploadDetails(df.value, file.name, "uploaded_file")),
               out |-> Logged(ok, "data_upload") \o Shown("success", "data_upload")]

\* the user drops a file on the uploader
ChooseFile(file) ==
    /\ step = 1
    /\ file # uploaded_file
    /\ \E run \in {RunDataUpload(client_data, files, logger, disk_ok, file)} :
       /\ client_data' = run.client_data
       /\ files' = run.files
       /\ out' = run.out
    /\ LogRoom(files')
    /\ uploaded_file' = file
    /\ UNCHANGED <<step, business_context, selected_variables, enriched_data,
                   insights, logger, now, disk_ok, probe, answer>>

\* the user removes the file from the uploader
RemoveFile ==
    /\ step = 1
    /\ uploaded_file # NoFile
    /\ uploaded_file' = NoFile
    /\ out' = <<>>
    /\ UNCHANGED <<step, client_data, business_context, selected_variables,
                   enriched_data, insights, logger, files, now, disk_ok,
                   probe, answer>>

\* "Load Sample Coffee Shop Data"
LoadSample ==
    /\ step = 1
    /\ uploaded_file = NoFile
    /\ client_data' = create_sample_data
    /\ files' = log_event(files, logger, disk_ok, "data_upload",
                    UploadDetails(create_sample_data, "sample_coffee_shop_data",
                                  "sample_generated"))
    /\ LogRoom(files')
    /\ out' = Logged(disk_ok, "data_upload") \o Shown("success", "data_upload")
    /\ UNCHANGED <<step, business_context, selected_variables, enriched_data,
                   insights, logger, now, uploaded_file, disk_ok, probe, answer>>

\* "Continue to Business Context": the button of the try block when a file
\* is attached (the run that sees the click has parsed and logged the file
\* once more), the button below when the sample was loaded.  The uploader is
\* not drawn at step 2, so its file is gone afterwards.
ContinueToBusinessContext ==
    /\ step = 1
    /\ IF uploaded_file # NoFile THEN uploaded_file.parses ELSE client_data # None
    /\ \E run \in {RunDataUpload(client_data, files, logger, disk_ok, uploaded_file)} :
       /\ client_data' = run.client_data
       /\ files' = run.files
       /\ out' = run.out
    /\ LogRoom(files')
    /\ step' = 2
    /\ uploaded_file' = NoFile
    /\ UNCHANGED <<business_context, selected_variables, enriched_data,
                   insights, logger, now, disk_ok, probe, answer>>

\* the "Show Debug Info" checkbox: a run of the current step with no button
\* pressed; only step 1 with a file attached does anything in such a run
ToggleDebugInfo ==
    /\ step = 1
    /\ uploaded_file # NoFile
    /\ \E run \in {RunDataUpload(client_data, files, logger, disk_ok, uploaded_file)} :
       /\ client_data' = run.client_data
       /\ files' = run.files
       /\ out' = run.out
    /\ LogRoom(files')
    /\ UNCHANGED <<step, business_context, selected_variables, enriched_data,
                   insights, logger, now, uploaded_file, disk_ok, probe, answer>>

\* variant: going back to the business context form empties it
NavigateTo_ForgetsContext(i) ==
    /\ i < step
    /\ step' = i
    /\ business_context' = IF i <= 2 THEN EmptyDict ELSE business_context
    /\ out' = <<>>
    /\ UNCHANGED <<client_data, selected_variables, enriched_data,
                   insights, logger, files, now, uploaded_file, disk_ok,
                   probe, answer>>

\* variant: the sidebar offers every other step, not only the completed ones
NavigateTo_AnyStep(i) ==
    /\ i # step
    /\ step' = i
    /\ out' = <<>>
    /\ UNCHANGED <<client_data, business_context, selected_variables, enriched_data,
                   insights, logger, files, now, uploaded_file, disk_ok,
                   probe, answer>>

\* a sidebar button of a completed step
NavigateTo(i) ==
    /\ i < step
    /\ step' = i
    /\ out' = <<>>
    /\ UNCHANGED <<client_data, business_context, selected_variables, enriched_data,
                   insights, logger, files, now, uploaded_file, disk_ok,
                   probe, answer>>

\* variant: the reset leaves the step where it was
FreshSession_KeepsStep(fs, file) ==
    \E run \in {RunDataUpload(None, SessionLogger(fs, now, disk_ok), NewLogger(now),
                              disk_ok, file)} :
        /\ step' = step
        /\ business_context' = EmptyDict
        /\ selected_variables' = <<>>
        /\ enriched_data' = None
        /\ insights' = EmptyDict
        /\ logger' = NewLogger(now)
        /\ client_data' = run.client_data
        /\ files' = run.files

\* variant: the report survives the reset
FreshSession_KeepsReport(fs, file) ==
    \E run \in {RunDataUpload(None, SessionLogger(fs, now, disk_ok), NewLogger(now),
                              disk_ok, file)} :
        /\ step' = 1
        /\ business_context' = EmptyDict
        /\ selected_variables' = <<>>
        /\ enriched_data' = None
        /\ insights' = insights
        /\ logger' = NewLogger(now)
        /\ client_data' = run.client_data
        /\ files' = run.files

\* the session after every key was deleted and main ran again: lines 58-73
\* build a fresh state and a new SessionLogger, then step 1 is drawn.  A
\* re-run requested by st.rerun() keeps the widgets' values, so a file that
\* was attached at step 1 is parsed and logged by the new session.
FreshSession(fs, file) ==
    \E run \in {RunDataUpload(None, SessionLogger(fs, now, disk_ok), NewLogger(now),
                              disk_ok, file)} :
        /\ step' = 1
        /\ business_context' = EmptyDict
        /\ selected_variables' = <<>>
        /\ enriched_data' = None
        /\ insights' = EmptyDict
        /\ logger' = NewLogger(now)
        /\ client_data' = run.client_data
        /\ files' = run.files

\* sidebar "Start Over"
StartOver ==
    /\ FreshSession(files, uploaded_file)
    /\ LogRoom(files')
    /\ out' = Shown("reset", "start_over")
    /\ UNCHANGED <<now, uploaded_file, disk_ok, probe, answer>>

\* the submit button of the business context form
SubmitBusinessContext(context) ==
    /\ step = 2
    /\ business_context' = context
    /\ files' = log_event(files, logger, disk_ok, "business_context_captured",
                          ContextDetails(context))
    /\ LogRoom(files')
    /\ step' = 3
    /\ out' = Logged(disk_ok, "business_context_captured")
    /\ UNCHANGED <<client_data, selected_variables, enriched_data, insights,
                   logger, now, uploaded_file, disk_ok, probe, answer>>

\* the three variables show_variable_selection falls back to
AppFallbackVariables ==
    << [variable |-> "AGE", rationale |-> "Core demographic for market segmentation", category |-> "demographics"],
       [variable |-> "INCOME_HH", rationale |-> "Essential for pricing strategy", category |-> "economic"],
       [variable |-> "EDUCATION", rationale |-> "Indicates customer sophistication", category |-> "lifestyle"] >>

\* show_ai_variable_explanations raises KeyError at var['variable'] when an
\* entry lacks that key
ExplanationsRaise(variables) ==
    \E i \in 1..Len(variables) : "variable" \notin DOMAIN variables[i]

\* the except branch of show_variable_selection
SelectionFailed(fs, lg, ok, error_type, before) ==
    [selected_variables |-> AppFallbackVariables,
     files |-> log_event(fs, lg, ok, "ai_variable_selection",
                         SelectionFailureDetails(error_type)),
     out |-> before \o Shown("error", "ai_variable_selection")
             \o Logged(ok, "ai_variable_selection")]

\* the "Generate Enrichment Recommendations" handler of
\* show_variable_selection: the stored variables, the log and the trace
RunVariableSelection(context, fs, lg, ok, response) ==
    LET explain(variables, logged, shown) ==
            IF ExplanationsRaise(variables)
            THEN SelectionFailed(logged, lg, ok, "KeyError", shown)
            ELSE [selected_variables |-> variables, files |-> logged, out |-> shown]
        store(variables) ==
            explain(variables,
                    log_event(fs, lg, ok, "ai_variable_selection",
                              SelectionSuccessDetails(variables, context)),
                    Logged(ok, "ai_variable_selection")
                    \o Shown("success", "ai_variable_selection"))
        handle(selected_vars) ==
            IF selected_vars.raised
            THEN SelectionFailed(fs, lg, ok, "Exception", <<>>)
            ELSE IF selected_vars.value.t # "list"
            \* var.get on the characters of a str: AttributeError before the log call
            THEN SelectionFailed(fs, lg, ok, "AttributeError", <<>>)
            ELSE store(selected_vars.value.items)
    IN  handle(select_variables_with_ai(context, response))

GenerateRecommendations(response) ==
    /\ step = 3
    /\ \E run \in {RunVariableSelection(business_context, files, logger, disk_ok, response)} :
       /\ selected_variables' = run.selected_variables
       /\ files' = run.files
       /\ out' = run.out
    /\ LogRoom(files')
    /\ UNCHANGED <<step, client_data, business_context, enriched_data, insights,
                   logger, now, uploaded_file, disk_ok, probe, answer>>

\* "Continue to Data Enrichment"
ContinueToEnrichment ==
    /\ step = 3
    /\ selected_variables # <<>>
    /\ step' = 4
    /\ out' = <<>>
    /\ UNCHANGED <<client_data, business_context, selected_variables, enriched_data,
                   insights, logger, files, now, uploaded_file, disk_ok,
                   probe, answer>>

MockEnriched == PyStr("mock_enriched")

\* the except branch of show_data_enrichment
EnrichmentFailed(ed, fs, lg, ok, error_type) ==
    [enriched_data |-> ed,
     files |-> log_event(fs, lg, ok, "data_enrichment_error", [error_type |-> error_type]),
     out |-> Shown("error", "data_enrichment_complete")
             \o Logged(ok, "data_enrichment_error")]

\* the "Start Data Enrichment" handler of show_data_enrichment.  The
\* enriched frame is stored before the match rate is computed, so a
\* ZeroDivisionError (no client rows) leaves it stored.
RunEnrichment(cd, variables, ed, fs, lg, ok, fixture) ==
    IF ~fixture.exists
    THEN [enriched_data |-> MockEnriched,
          files |-> log_event(fs, lg, ok, "data_enrichment_complete",
                        EnrichmentDetails(cd, variables, 873, "mock_data_fallback")),
          out |-> Shown("warning", "data_enrichment_complete")
                  \o Logged(ok, "data_enrichment_complete")
                  \o Shown("result", "data_enrichment_complete")]
    ELSE IF ~fixture.parses
    THEN EnrichmentFailed(ed, fs, lg, ok, "ParserError")
    ELSE IF cd.n = 0
    THEN EnrichmentFailed(fixture.df, fs, lg, ok, "ZeroDivisionError")
    ELSE [enriched_data |-> fixture.df,
          files |-> log_event(fs, lg, ok, "data_enrichment_complete",
                        EnrichmentDetails(cd, variables,
                                          MatchRatePermille(fixture.df.n, cd.n),
                                          "identity_graph_simulation")),
          out |-> Logged(ok, "data_enrichment_complete")
                  \o Shown("success", "data_enrichment_complete")
                  \o Shown("result", "data_enrichment_complete")]

StartEnrichment(fixture) ==
    /\ step = 4
    /\ \E run \in {RunEnrichment(client_data, selected_variables, enriched_data,
                                files, logger, disk_ok, fixture)} :
       /\ enriched_data' = run.enriched_data
       /\ files' = run.files
       /\ out' = run.out
    /\ LogRoom(files')
    /\ UNCHANGED <<step, client_data, business_context, selected_variables,
                   insights, logger, now, uploaded_file, disk_ok, probe, answer>>

\* "Continue to Insights Generation"
ContinueToInsights ==
    /\ step = 4
    /\ enriched_data # None
    /\ step' = 5
    /\ out' = <<>>
    /\ UNCHANGED <<client_data, business_context, selected_variables, enriched_data,
                   insights, logger, files, now, uploaded_file, disk_ok,
                   probe, answer>>

\* the test that guards the report display of steps 5 and 6
HasReport(ins) == Truthy(ins) /\ "insights_text" \in DOMAIN ins

\* the report show_generate_insights stores when generate_customer_insights
\* raises
DemoInsights(variables, ed) ==
    [insights_text |-> "**Demo Insights**",
     variables_analyzed |-> Len(variables),
     records_analyzed |-> IF IsDataFrame(ed) THEN ed.n ELSE 500]

\* the "Generate Customer Intelligence Report" handler
RunGenerateInsights(ed, context, variables, fs, lg, ok, response) ==
    LET handle(result) ==
        IF result.raised
        THEN [insights |-> DemoInsights(variables, ed),
              files |-> log_event(fs, lg, ok, "insights_generated",
                            [ai_analysis_success |-> FALSE, fallback_used |-> TRUE]),
              out |-> Shown("error", "insights_generated")
                      \o Logged(ok, "insights_generated")
                      \o Shown("success", "insights_generated")]
        ELSE [insights |-> result.value,
              files |-> log_event(fs, lg, ok, "insights_generated",
                                  InsightsDetails(result.value, context)),
              out |-> Logged(ok, "insights_generated")
                      \o (IF HasReport(result.value)
                          THEN Shown("success", "insights_generated") ELSE <<>>)]
    IN  handle(generate_customer_insights(ed, context, variables, response))

\* step 5 draws its button only past the check of line 505
InsightsReady == enriched_data # None /\ selected_variables # <<>>

\* variant: the export step opens by itself once the report is there
GenerateInsights_AutoAdvance(response) ==
    /\ step = 5
    /\ InsightsReady
    /\ \E run \in {RunGenerateInsights(enriched_data, business_context, selected_variables,
                                      files, logger, disk_ok, response)} :
       /\ insights' = run.insights
       /\ files' = run.files
       /\ out' = run.out
    /\ LogRoom(files')
    /\ step' = 6
    /\ UNCHANGED <<client_data, business_context, selected_variables,
                   enriched_data, logger, now, uploaded_file, disk_ok,
                   probe, answer>>

\* "Generate Customer Intelligence Report"
GenerateInsights(response) ==
    /\ step = 5
    /\ InsightsReady
    /\ \E run \in {RunGenerateInsights(enriched_data, business_context, selected_variables,
                                      files, logger, disk_ok, response)} :
       /\ insights' = run.insights
       /\ files' = run.files
       /\ out' = run.out
    /\ LogRoom(files')
    /\ UNCHANGED <<step, client_data, business_context, selected_variables,
                   enriched_data, logger, now, uploaded_file, disk_ok,
                   probe, answer>>

\* variant: the required-data check of line 505 is missing
show_generate_insights_NoCheck(ed, context, variables, ins, fs, lg, ok, clicked, response) ==
    IF clicked
    THEN RunGenerateInsights(ed, context, variables, fs, lg, ok, response)
    ELSE [insights |-> ins, files |-> fs, out |-> <<>>]

\* show_generate_insights as a function of the session state it is run on:
\* the check of lines 505-507 returns before the button is drawn
show_generate_insights(ed, context, variables, ins, fs, lg, ok, clicked, response) ==
    IF ed = None \/ ~Truthy(variables)
    THEN [insights |-> ins, files |-> fs, out |-> Shown("warning", "insights_generated")]
    ELSE IF clicked
    THEN RunGenerateInsights(ed, context, variables, fs, lg, ok, response)
    ELSE [insights |-> ins, files |-> fs, out |-> <<>>]

\* variant: the button is drawn whether or not a report can be displayed
ContinueToExport_NoReportCheck ==
    /\ step = 5
    /\ InsightsReady
    /\ step' = 6
    /\ out' = <<>>
    /\ UNCHANGED <<client_data, business_context, selected_variables, enriched_data,
                   insights, logger, files, now, uploaded_file, disk_ok,
                   probe, answer>>

\* "Continue to Export Report"
ContinueToExport ==
    /\ step = 5
    /\ InsightsReady
    /\ HasReport(insights)
    /\ step' = 6
    /\ out' = <<>>
    /\ UNCHANGED <<client_data, business_context, selected_variables, enriched_data,
                   insights, logger, files, now, uploaded_file, disk_ok,
                   probe, answer>>

\* ------------------------------------------------- session summarizer
\* SessionLogger._create_workflow_narrative: one sentence per event whose
\* type one of the branches names
NarrativeTypes ==
    {"data_upload", "business_context", "variable_selection", "data_enrichment",
     "insights_generation", "report_export"}

RECURSIVE _create_workflow_narrative(_)
_create_workflow_narrative(events) ==
    IF events = <<>> THEN <<>>
    ELSE (IF Head(events).event \in NarrativeTypes THEN <<Head(events).event>> ELSE <<>>)
         \o _create_workflow_narrative(Tail(events))

\* len("Error generating summary: " + str(e)) for str(e) = "Connection error."
SummaryErrorLength == 43
\* len("No workflow data available.")
NoDataLength == 27

\* variant: the exception of the completion call is not turned into a string
generate_workflow_summary_NoErrorString(fs, lg, audience, response) ==
    LET events == read_session_log(fs, lg)
    IN  IF events = <<>> THEN NoDataLength
        ELSE IF response.raised THEN 0
        ELSE response.length

\* SessionLogger.generate_workflow_summary: the length of the text returned
generate_workflow_summary(fs, lg, audience, response) ==
    LET events == read_session_log(fs, lg)
        workflow_narrative == _create_workflow_narrative(events)
        prompt == [audience |-> audience, narrative |-> workflow_narrative]
    IN  IF events = <<>> THEN NoDataLength
        ELSE IF response.raised THEN SummaryErrorLength
        ELSE response.length

\* --------------------------------------------------- show_report_export
\* generate_text_report reads var['variable'] and var['rationale']: an entry
\* without one of them stops the run of step 6 before any button is drawn
TextReportRenders(variables) ==
    \A i \in 1..Len(variables) : {"variable", "rationale"} \subseteq DOMAIN variables[i]

ExportVisible ==
    /\ step = 6
    /\ HasReport(insights)
    /\ TextReportRenders(selected_variables)

\* a download button: the event is logged by the run that follows the click
Download(format) ==
    /\ ExportVisible
    /\ files' = log_event(files, logger, disk_ok, "report_exported",
                    [format |-> format,
                     business_name |-> Get(business_context, "business_name", "Unknown")])
    /\ LogRoom(files')
    /\ out' = Shown("result", "report_exported") \o Logged(disk_ok, "report_exported")
    /\ UNCHANGED <<step, client_data, business_context, selected_variables,
                   enriched_data, insights, logger, now, uploaded_file, disk_ok,
                   probe, answer>>

\* "Internal Analysis" / "Client Summary": the summary is drawn, then logged
WorkflowSummary(audience, response) ==
    /\ ExportVisible
    /\ LET summary == generate_workflow_summary(files, logger, audience, response) IN
       files' = log_event(files, logger, disk_ok, "workflow_summary_generated",
                    [audience |-> audience, summary_length |-> summary])
    /\ LogRoom(files')
    /\ out' = Shown("result", "workflow_summary_generated")
              \o Logged(disk_ok, "workflow_summary_generated")
    /\ UNCHANGED <<step, client_data, business_context, selected_variables,
                   enriched_data, insights, logger, now, uploaded_file, disk_ok,
                   probe, answer>>

\* "Start New Analysis": session_completed goes to the log of the session
\* that ends, then every key is deleted and main runs again
StartNewAnalysis ==
    /\ ExportVisible
    /\ FreshSession(log_event(files, logger, disk_ok, "session_completed",
                        [completion_type |-> "new_analysis_started",
                         total_records |-> Get(insights, "records_analyzed", 0),
                         business_industry |-> Get(business_context, "industry", "Unknown")]),
                    NoFile)
    /\ LogRoom(files')
    /\ out' = Logged(disk_ok, "session_completed") \o Shown("reset", "new_analysis")
    /\ UNCHANGED <<now, uploaded_file, disk_ok, probe, answer>>

\* variant: refining also drops the variables selected so far
RefineAnalysis_ClearsSelection ==
    /\ ExportVisible
    /\ files' = log_event(files, logger, disk_ok, "analysis_refinement",
                    [refinement_type |-> "variable_reselection"])
    /\ LogRoom(files')
    /\ step' = 3
    /\ selected_variables' = <<>>
    /\ out' = Logged(disk_ok, "analysis_refinement")
    /\ UNCHANGED <<client_data, business_context, enriched_data,
                   insights, logger, now, uploaded_file, disk_ok, probe, answer>>

\* "Refine Analysis"
RefineAnalysis ==
    /\ ExportVisible
    /\ files' = log_event(files, logger, disk_ok, "analysis_refinement",
                    [refinement_type |-> "variable_reselection"])
    /\ LogRoom(files')
    /\ step' = 3
    /\ out' = Logged(disk_ok, "analysis_refinement")
    /\ UNCHANGED <<client_data, business_context, selected_variables, enriched_data,
                   insights, logger, now, uploaded_file, disk_ok, probe, answer>>

\* ------------------------------------------------------- specification
Next ==
    \/ Tick
    \/ \E file \in UploadFiles : ChooseFile(file)
    \/ RemoveFile
    \/ LoadSample
    \/ ContinueToBusinessContext
    \/ ToggleDebugInfo
    \/ \E i \in 1..5 : NavigateTo(i)
    \/ StartOver
    \/ \E context \in BusinessContexts : SubmitBusinessContext(context)
    \/ \E response \in VariableResponses : GenerateRecommendations(response)
    \/ ContinueToEnrichment
    \/ \E fixture \in EnrichedFixtures : StartEnrichment(fixture)
    \/ ContinueToInsights
    \/ \E response \in InsightResponses : GenerateInsights(response)
    \/ ContinueToExport
    \/ \E format \in {"text", "json"} : Download(format)
    \/ \E audience \in {"internal", "customer"}, response \in SummaryResponses :
           WorkflowSummary(audience, response)
    \/ StartNewAnalysis
    \/ RefineAnalysis

Spec == Init /\ [][Next]_vars

\* ------------------------------------------- the helpers on their own
\* One call per behaviour: probe is None until the call is made.
\* every completion of at most MaxText tokens
Texts(tokens) == UNION {[1..k -> tokens] : k \in 0..MaxText}

Responses(docs) ==
    {Raises} \cup {Completion(text) : text \in Texts({"FJ", "F", "WS", "TXT"} \cup docs)}

\* a frame without rows whose AGE column is empty
NoRowsEnriched == DataFrame(0, 9, [AGE |-> (NaAge :> 0)])

HelperFrames == {SampleEnriched, WideEnriched, HollowEnriched, NoRowsEnriched}

\* select_variables_with_ai(context) against one completion
CallSelectVariables ==
    /\ probe = None
    /\ \E context \in BusinessContexts \cup {EmptyDict}, response \in Responses(VariableDocs) :
          /\ probe' = [fn |-> "select_variables_with_ai", context |-> context,
                       response |-> response]
          /\ answer' = select_variables_with_ai(context, response)
    /\ UNCHANGED <<step, client_data, business_context, selected_variables,
                   enriched_data, insights, logger, files, now, uploaded_file,
                   disk_ok, out>>

\* analyze_enriched_data(df, context, variables) against one completion
CallAnalyze ==
    /\ probe = None
    /\ \E df \in HelperFrames, response \in Responses(InsightDocs) :
          /\ probe' = [fn |-> "analyze_enriched_data", df |-> df, context |-> FullContext,
                       variables |-> GoodVariables, response |-> response]
          /\ answer' = analyze_enriched_data(df, FullContext, GoodVariables, response)
    /\ UNCHANGED <<step, client_data, business_context, selected_variables,
                   enriched_data, insights, logger, files, now, uploaded_file,
                   disk_ok, out>>

\* show_generate_insights run on a session state, with or without a click
\* on "Generate Customer Intelligence Report"
CallShowGenerateInsights ==
    /\ probe = None
    /\ \E ed \in {None, MockEnriched, SampleEnriched, HollowEnriched},
          variables \in {<<>>, GoodVariables, AppFallbackVariables},
          context \in BusinessContexts,
          clicked \in BOOLEAN, response \in InsightResponses :
          /\ probe' = [fn |-> "show_generate_insights", enriched_data |-> ed,
                       selected_variables |-> variables, context |-> context,
                       clicked |-> clicked, response |-> response]
          /\ answer' = show_generate_insights(ed, context, variables, insights, files,
                                              logger, disk_ok, clicked, response)
    /\ UNCHANGED <<step, client_data, business_context, selected_variables,
                   enriched_data, insights, logger, files, now, uploaded_file,
                   disk_ok, out>>

\* ---- the markdown-table variant of the response parser
\* A line of the completion is the sequence of its segments between pipes; a
\* segment is a sequence of words and blanks.
Blank == " "

RECURSIVE LStrip(_)
LStrip(seg) == IF seg # <<>> /\ Head(seg) = Blank THEN LStrip(Tail(seg)) ELSE seg

RECURSIVE RStrip(_)
RStrip(seg) ==
    IF seg # <<>> /\ seg[Len(seg)] = Blank THEN RStrip(SubSeq(seg, 1, Len(seg) - 1)) ELSE seg

\* trimming a segment
StripSegment(seg) == LStrip(RStrip(seg))

TableLabels == {"Variable", "Category", "Strategic Rationale"}

\* a header row: a line in which all three column labels occur
IsHeaderRow(line) ==
    \A label \in TableLabels : \E i \in 1..Len(line) : \E j \in 1..Len(line[i]) :
        line[i][j] = label

\* a data row: at least 4 segments, the 2nd, 3rd and 4th non-empty once trimmed
IsDataRow(line) ==
    /\ Len(line) >= 4
    /\ \A i \in 2..4 : StripSegment(line[i]) # <<>>

RowRecommendation(line) ==
    [variable |-> StripSegment(line[2]), category |-> StripSegment(line[3]),
     rationale |-> StripSegment(line[4])]

\* variant: a row counts with 3 segments and whatever is in them
parse_markdown_table_Lenient(lines, header_seen) ==
    LET body == SelectSeq(lines, LAMBDA l : ~IsHeaderRow(l) /\ Len(l) >= 3) IN
    [i \in 1..Len(body) |->
        [variable |-> StripSegment(body[i][2]), category |-> StripSegment(body[i][3]),
         rationale |-> IF Len(body[i]) >= 4 THEN StripSegment(body[i][4]) ELSE <<>>]]

\* the scan of the completion's lines: rows count only below the header row
RECURSIVE parse_markdown_table(_, _)
parse_markdown_table(lines, header_seen) ==
    IF lines = <<>> THEN <<>>
    ELSE IF ~header_seen THEN parse_markdown_table(Tail(lines), IsHeaderRow(Head(lines)))
    ELSE IF IsDataRow(Head(lines))
    THEN <<RowRecommendation(Head(lines))>> \o parse_markdown_table(Tail(lines), TRUE)
    ELSE parse_markdown_table(Tail(lines), TRUE)

\* what a completion's table is made of
RowKinds == [kind : {"row"}, variable : {"AGE", "INCOME_HH", "EDUCATION"}] \cup
            [kind : {"short", "blank_cell", "prose"}, variable : {"AGE"}]

\* the text of one row of each kind
RenderRow(row) ==
    CASE row.kind = "row" ->
            << <<>>, <<Blank, row.variable, Blank>>, <<Blank, "demographics", Blank>>,
               <<Blank, "why", Blank, "it", Blank, "matters", Blank>>, <<>> >>
      [] row.kind = "short" ->
            << <<>>, <<Blank, row.variable, Blank>>, <<Blank, "demographics">> >>
      [] row.kind = "blank_cell" ->
            << <<>>, <<Blank, row.variable, Blank>>, <<Blank, Blank>>,
               <<Blank, "why", Blank>>, <<>> >>
      [] row.kind = "prose" ->
            << <<"These", Blank, "variables", Blank, "fit", Blank, "best">> >>

HeaderRow ==
    << <<>>, <<Blank, "Variable", Blank>>, <<Blank, "Category", Blank>>,
       <<Blank, "Strategic Rationale", Blank>>, <<>> >>

RenderTable(preamble, body) ==
    [i \in 1..Len(preamble) |-> RenderRow(preamble[i])]
        \o <<HeaderRow>>
        \o [i \in 1..Len(body) |-> RenderRow(body[i])]

\* the table parser against one completion: nothing, prose or a stray row
\* above the header, up to MaxRows rows below it
CallParseTable ==
    /\ probe = None
    /\ \E preamble \in { <<>>, <<[kind |-> "prose", variable |-> "AGE"]>>,
                          <<[kind |-> "row", variable |-> "EDUCATION"]>> },
          body \in UNION { [1..n -> RowKinds] : n \in 0..MaxRows } :
          /\ probe' = [fn |-> "parse_markdown_table", preamble |-> preamble, body |-> body]
          /\ answer' = parse_markdown_table(RenderTable(preamble, body), FALSE)
    /\ UNCHANGED <<step, client_data, business_context, selected_variables,
                   enriched_data, insights, logger, files, now, uploaded_file,
                   disk_ok, out>>

\* the "Start Data Enrichment" handler on a client file of 1..MaxCount or
\* 500 rows and an enriched file of 0..MaxCount, 480 or 600 rows, or without
\* the enriched file
CallRunEnrichment ==
    /\ probe = None
    /\ \E client \in (1..MaxCount) \cup {500},
          fixture \in {[exists |-> FALSE]} \cup
                      {[exists |-> TRUE, parses |-> TRUE, df |-> DataFrame(n, 9, EmptyDict)] :
                          n \in (0..MaxCount) \cup {480, 600}} :
          /\ probe' = [fn |-> "show_data_enrichment", client |-> client, fixture |-> fixture]
          /\ answer' = RunEnrichment(DataFrame(client, 5, EmptyDict), GoodVariables, None,
                                     files, logger, disk_ok, fixture)
    /\ UNCHANGED <<step, client_data, business_context, selected_variables,
                   enriched_data, insights, logger, files, now, uploaded_file,
                   disk_ok, out>>

\* a handler run twice on the same session and input: with a log file that
\* cannot be written, and with one that can
BothWays(handler, failed, written) ==
    /\ probe' = [fn |-> "log_failure", handler |-> handler]
    /\ answer' = [failed |-> failed, written |-> written]

CallWithFailingDisk ==
    /\ probe = None
    /\ \/ \E file \in UploadFiles \cup {[name |-> "clients.csv", parses |-> TRUE,
                                         rows |-> 3, columns |-> 5]},
             cd \in {None, create_sample_data} :
             BothWays("show_data_upload",
                      RunDataUpload(cd, files, logger, FALSE, file),
                      RunDataUpload(cd, files, logger, TRUE, file))
       \/ \E context \in BusinessContexts, response \in VariableResponses :
             BothWays("show_variable_selection",
                      RunVariableSelection(context, files, logger, FALSE, response),
                      RunVariableSelection(context, files, logger, TRUE, response))
       \/ \E cd \in {create_sample_data, read_csv_frame(HeaderOnlyCsv)},
             fixture \in EnrichedFixtures :
             BothWays("show_data_enrichment",
                      RunEnrichment(cd, GoodVariables, None, files, logger, FALSE, fixture),
                      RunEnrichment(cd, GoodVariables, None, files, logger, TRUE, fixture))
       \/ \E ed \in {MockEnriched, SampleEnriched, HollowEnriched},
             response \in InsightResponses :
             BothWays("show_generate_insights",
                      RunGenerateInsights(ed, FullContext, GoodVariables, files, logger,
                                          FALSE, response),
                      RunGenerateInsights(ed, FullContext, GoodVariables, files, logger,
                                          TRUE, response))
    /\ UNCHANGED <<step, client_data, business_context, selected_variables,
                   enriched_data, insights, logger, files, now, uploaded_file,
                   disk_ok, out>>

HelperNext ==
    \/ CallSelectVariables
    \/ CallAnalyze
    \/ CallShowGenerateInsights
    \/ CallParseTable
    \/ CallRunEnrichment
    \/ CallWithFailingDisk

HelperSpec == Init /\ [][HelperNext]_vars

\* ------------------------------------------------------------ properties
Last(seq) == seq[Len(seq)]

\* the number of entries of a log with the given event type
RECURSIVE CountEvents(_, _)
CountEvents(log, event_type) ==
    IF log = <<>> THEN 0
    ELSE (IF Head(log).event = event_type THEN 1 ELSE 0)
         + CountEvents(Tail(log), event_type)

\* the last interaction wrote an entry of this type
JustLogged(event_type) ==
    \E i \in 1..Len(out) : out[i] = [k |-> "log", a |-> event_type]

\* C1: after the insight-generation action of step 5, whatever the
\* completion service did, the session holds a report that passes the display
\* test of step 5, so that "Continue to Export Report" is offered.
C1_ReportAfterGeneration ==
    (step = 5 /\ JustLogged("insights_generated")) => HasReport(insights)

\* the session_completed entries of all log files
RECURSIVE CompletedUpTo(_, _)
CompletedUpTo(fs, id) ==
    IF id < 0 THEN 0
    ELSE CountEvents(fs[id], "session_completed") + CompletedUpTo(fs, id - 1)

TotalCompleted(fs) == CompletedUpTo(fs, MaxClock)

\* every session field holds the value main gives it on an empty state
SessionCleared ==
    /\ step = 1
    /\ client_data = None
    /\ business_context = EmptyDict
    /\ selected_variables = <<>>
    /\ enriched_data = None
    /\ insights = EmptyDict

\* this step is "Start New Analysis"
NewAnalysisStep ==
    /\ step = 6
    /\ step' = 1
    /\ out' = <<[k |-> "log", a |-> "session_completed"],
                [k |-> "reset", a |-> "new_analysis"]>>

\* C2: "Start New Analysis" appends exactly one session_completed entry to
\* the log of the session that ends, filled from the state about to be
\* cleared, and leaves a session at step 1 whose business context, client
\* records, selected variables, enriched records and report are all empty.
C2_NewAnalysisLogsThenClears ==
    [][NewAnalysisStep =>
          LET old == logger.session_id
              entry == files'[old][Len(files[old]) + 1]
          IN  /\ Len(files'[old]) > Len(files[old])
              /\ IsPrefix(files[old], files'[old])
              /\ entry.event = "session_completed"
              /\ entry.details.total_records = Get(insights, "records_analyzed", 0)
              /\ entry.details.business_industry = Get(business_context, "industry", "Unknown")
              /\ TotalCompleted(files') = TotalCompleted(files) + 1
              /\ SessionCleared']_vars

C2_Witness ==
    /\ SessionCleared
    /\ out = <<[k |-> "log", a |-> "session_completed"],
               [k |-> "reset", a |-> "new_analysis"]>>
    /\ TotalCompleted(files) = 1
    /\ \E id \in SessionIds :
          \E i \in 1..Len(files[id]) :
             /\ files[id][i].event = "session_completed"
             /\ files[id][i].details.business_industry = "Food & Beverage"

\* this step is a reset: a new logger wrote its session_start
ResetStep ==
    /\ files' # files
    /\ \E i \in 1..Len(out') : out'[i].k = "reset"

\* C3: every reset, from any step and through either control, appends a
\* session_completed entry to the log of the session that ends before the
\* session state is cleared.
C3_EveryResetLogsCompletion ==
    [][ResetStep =>
          LET old == logger.session_id
          IN  /\ Len(files'[old]) > Len(files[old])
              /\ files'[old][Len(files[old]) + 1].event = "session_completed"]_vars

\* an entry that tells a degraded outcome from a successful completion
Flagged(details, success_key) ==
    \/ Get(details, success_key, TRUE) = FALSE
    \/ Get(details, "fallback_used", FALSE) = TRUE

IsFallbackReport(ins) ==
    \/ DOMAIN ins = DOMAIN get_mock_insights /\ ins = get_mock_insights
    \/ /\ DOMAIN ins = DOMAIN get_mock_insights_with_stats(EmptyDict)
       /\ ins = get_mock_insights_with_stats(ins.raw_stats)

\* C4: when a fallback variable list or a fallback report was stored, the
\* entry logged for that action has its success flag false or its fallback
\* flag true.
C4_FallbackIsFlagged ==
    /\ (/\ JustLogged("ai_variable_selection")
        /\ selected_variables \in {get_fallback_variables, AppFallbackVariables})
       => Flagged(Last(files[logger.session_id]).details, "ai_success")
    /\ (JustLogged("insights_generated") /\ IsFallbackReport(insights))
       => Flagged(Last(files[logger.session_id]).details, "ai_analysis_success")

\* ---- select_variables_with_ai on its own
SelectCalled == probe # None /\ probe.fn = "select_variables_with_ai"

\* the completion call raises, or json.loads raises on what is left of the text
Undeserializable(response) ==
    response.raised \/ json_loads(CleanResponse(response.text)).raised

FallbackNames ==
    <<"AGE", "INCOME_HH", "EDUCATION", "URBANICITY", "MARITAL_STATUS", "CHILDREN_HH",
      "OCCUPATION_TYPE", "LIFESTYLE_CLUSTER", "HIGH_TECH_AFFINITY", "GOURMET_AFFINITY",
      "FITNESS_AFFINITY", "READING_MAGAZINES">>

\* C5: when the completion call raises or the text does not deserialize,
\* select_variables_with_ai does not raise and returns the twelve fallback
\* recommendations in their fixed order.
C5_FallbackOnFailure ==
    (SelectCalled /\ Undeserializable(probe.response)) =>
        /\ ~answer.raised
        /\ answer.value.t = "list"
        /\ Len(answer.value.items) = 12
        /\ [i \in 1..12 |-> answer.value.items[i].variable] = FallbackNames
        /\ answer.value.items = get_fallback_variables

C5_Witness ==
    /\ SelectCalled
    /\ ~probe.response.raised
    /\ probe.response.text = <<"FJ", "V_OK", "TXT">>
    /\ Len(answer.value.items) = 12

\* C6: for every business context and every completion (any text, or an
\* exception) select_variables_with_ai returns a non-empty sequence.
C6_NeverEmpty ==
    SelectCalled => (answer.value.t = "list" /\ answer.value.items # <<>>)

\* ---- analyze_enriched_data on its own
AnalyzeCalled == probe # None /\ probe.fn = "analyze_enriched_data"

\* C7: once the local statistics are computed, the report returned by
\* analyze_enriched_data carries exactly them as raw_stats, whether the
\* completion succeeds (even with a raw_stats key of its own) or the call or
\* the parsing raises; in that case the other fields are the fallback content
\* and nothing is raised.
C7_StatsSurvive ==
    (AnalyzeCalled /\ ~ComputeStats(probe.df).raised) =>
        /\ ~answer.raised
        /\ "raw_stats" \in DOMAIN answer.value
        /\ answer.value.raw_stats = ComputeStats(probe.df).value
        /\ (probe.df = SampleEnriched =>
               /\ answer.value.raw_stats.age_median = Frac(40, 1)
               /\ answer.value.raw_stats.age_ranges.under_30 = Frac(125, 6)
               /\ answer.value.raw_stats.urban_percent = Frac(50, 1))
        /\ (Undeserializable(probe.response) =>
               /\ answer.value.segments =
                     <<"Affluent Professionals", "Emerging Adults", "Mature Market">>
               /\ DOMAIN answer.value =
                     {"executive_summary", "key_findings", "segments",
                      "recommendations", "raw_stats"})

C7_Witness ==
    /\ AnalyzeCalled
    /\ probe.df = SampleEnriched
    /\ ~probe.response.raised
    /\ probe.response.text = <<"FJ", "I_STATS", "F">>
    /\ answer.value.raw_stats # ForeignStats
    /\ answer.value.executive_summary = InsightFields.executive_summary

\* C8: no log file is written by two sessions: every new session gets a log
\* identity no earlier session had.
C8_OneSessionPerLog ==
    \A id \in SessionIds : CountEvents(files[id], "session_start") <= 1

\* C9: the log is append-only: across every step each log file keeps its
\* earlier content as a prefix.
C9_AppendOnly ==
    [][\A id \in SessionIds : IsPrefix(files[id], files'[id])]_vars

C9_Witness ==
    /\ Len(files[0]) >= 6
    /\ Len(files[1]) >= 1
    /\ logger.session_id = 1

\* the actions of C10 whose entry must precede what they show
ReportingEvents ==
    {"data_upload", "ai_variable_selection", "data_enrichment_complete",
     "insights_generated", "workflow_summary_generated"}

\* C10: whatever an action shows as its success message or result comes
\* after the entry it appends to the log.
C10_LoggedBeforeShown ==
    \A j \in 1..Len(out) :
        (out[j].k \in {"success", "result"} /\ out[j].a \in ReportingEvents) =>
            \E i \in 1..(j - 1) : out[i] = [k |-> "log", a |-> out[j].a]

\* the event kinds the workflow writes when a stage completes
StageEvents ==
    {"data_upload", "business_context_captured", "ai_variable_selection",
     "data_enrichment_complete", "insights_generated", "report_exported"}

\* the types of the entries of a log that are of one of the given types, in
\* log order
RECURSIVE EventsOfTypes(_, _)
EventsOfTypes(log, types) ==
    IF log = <<>> THEN <<>>
    ELSE (IF Head(log).event \in types THEN <<Head(log).event>> ELSE <<>>)
         \o EventsOfTypes(Tail(log), types)

\* C11: for a log holding one event of each completed stage, the narrative
\* of the session summarizer has one sentence for each of them, in log order.
C11_StagesNarrated ==
    \A id \in SessionIds :
        (\A e \in StageEvents : CountEvents(files[id], e) = 1) =>
            _create_workflow_narrative(files[id]) = EventsOfTypes(files[id], StageEvents)

\* this step is a summary request ("Internal Analysis" or "Client Summary")
SummaryStep ==
    /\ step = 6
    /\ step' = 6
    /\ now' = now
    /\ out' = <<[k |-> "result", a |-> "workflow_summary_generated"],
                [k |-> "log", a |-> "workflow_summary_generated"]>>

\* the length of the string a summary request gets for a completion: the
\* error string when the service raises, else the stripped text
ExpectedSummaryLength(response) ==
    IF response.raised THEN SummaryErrorLength ELSE response.length

\* C12: a summary request, whether the completion service answers or raises,
\* appends exactly one workflow_summary_generated entry to the session's log,
\* whose summary_length is the length of the string returned (the error
\* string when the service raised), and changes no other session field.
C12_SummaryAlwaysLogged ==
    [][SummaryStep =>
          /\ \E audience \in {"internal", "customer"}, response \in SummaryResponses :
                files' = [files EXCEPT ![logger.session_id] =
                            Append(@, LogEntry("workflow_summary_generated",
                                               [audience |-> audience,
                                                summary_length |->
                                                    ExpectedSummaryLength(response)]))]
          /\ CountEvents(files'[logger.session_id], "workflow_summary_generated")
                = CountEvents(files[logger.session_id], "workflow_summary_generated") + 1
          /\ UNCHANGED <<step, client_data, business_context, selected_variables,
                         enriched_data, insights, logger>>]_vars

\* the service raised and the error string's length was logged
C12_Witness ==
    /\ step = 6
    /\ JustLogged("workflow_summary_generated")
    /\ Last(files[logger.session_id]).details.summary_length = SummaryErrorLength
    /\ Last(files[logger.session_id]).details.audience = "customer"

ShowInsightsCalled == probe # None /\ probe.fn = "show_generate_insights"

\* C14: run on a session whose enriched records are absent or whose selected
\* variables are empty, step 5 generates nothing: no insights_generated entry
\* is written, the report is left as it was and only the warning is shown.
C14_NoGenerationWithoutData ==
    (ShowInsightsCalled
        /\ (probe.enriched_data = None \/ probe.selected_variables = <<>>)) =>
        /\ answer.files = files
        /\ answer.insights = insights
        /\ answer.out = <<[k |-> "warning", a |-> "insights_generated"]>>

\* a click pending on a session with enriched records and no variable
C14_Witness ==
    /\ ShowInsightsCalled
    /\ probe.clicked
    /\ probe.enriched_data = SampleEnriched
    /\ probe.selected_variables = <<>>
    /\ answer.out = <<[k |-> "warning", a |-> "insights_generated"]>>

\* ---- step transitions
\* the interaction was a reset ("Start Over", "Start New Analysis")
IsReset == \E i \in 1..Len(out') : out'[i].k = "reset"

\* a step of the workflow that moves to another step without resetting
StepTransition == step' # step /\ ~IsReset

\* the interaction appended exactly one entry, of this type, to the session's log
AppendsOne(event_type) ==
    /\ Len(files'[logger.session_id]) = Len(files[logger.session_id]) + 1
    /\ Last(files'[logger.session_id]).event = event_type
    /\ files' = [files EXCEPT ![logger.session_id] =
                    Append(@, Last(files'[logger.session_id]))]

\* C15 (as stated): every step transition changes the step number alone; the
\* business context, client records, selected variables, enriched records,
\* report and log are left as they were.
C15_TransitionsOnlyMoveStep ==
    [][StepTransition =>
        UNCHANGED <<business_context, client_data, selected_variables,
                    enriched_data, insights, files>>]_vars

\* C15 (amended): every step transition leaves client records, selected
\* variables, enriched records and report unchanged.  The transition 2 -> 3 is
\* the form submission: it stores the business context and appends
\* business_context_captured.  Refine 6 -> 3 appends analysis_refinement.
\* Continue 1 -> 2 with a file attached appends data_upload once more.  All
\* other transitions leave business context and log unchanged too.
C15_TransitionEffects ==
    [][StepTransition =>
        /\ UNCHANGED <<client_data, selected_variables, enriched_data, insights, logger>>
        /\ \/ /\ step = 2 /\ step' = 3
              /\ business_context' \in BusinessContexts
              /\ files' = files \/ AppendsOne("business_context_captured")
           \/ /\ step = 6 /\ step' = 3
              /\ business_context' = business_context
              /\ files' = files \/ AppendsOne("analysis_refinement")
           \/ /\ step = 1 /\ step' = 2
              /\ business_context' = business_context
              /\ files' = files \/ (uploaded_file # NoFile /\ AppendsOne("data_upload"))
           \/ /\ <<step, step'>> \notin {<<2, 3>>, <<6, 3>>}
              /\ UNCHANGED <<business_context, files>>]_vars

\* the session just after "Refine Analysis": at step 3, the refinement logged,
\* variables and report still there
C15_Witness ==
    /\ step = 3
    /\ JustLogged("analysis_refinement")
    /\ selected_variables # <<>>
    /\ HasReport(insights)

\* ---- business context
\* the interaction was the submission of the business context form
FormSubmission ==
    /\ step = 2
    /\ step' = 3
    /\ business_context' \in BusinessContexts
    /\ \E i \in 1..Len(out') : out'[i].a = "business_context_captured"

\* C16: the business context changes only when the step-2 form is submitted or
\* the session is reset (which empties it); upload, variable selection,
\* enrichment, insight generation, export, summary, refine and navigation
\* leave it as it was.
C16_ContextChangesOnlyOnSubmit ==
    [][business_context' # business_context =>
        \/ FormSubmission
        \/ IsReset /\ business_context' = EmptyDict]_vars

\* the form submitted a second time, with a different answer, by a user who
\* had already selected variables and gone back
C16_Witness ==
    /\ step = 3
    /\ business_context = BlankContext
    /\ selected_variables # <<>>
    /\ \E i \in 1..Len(files[logger.session_id]) :
          /\ files[logger.session_id][i].event = "business_context_captured"
          /\ files[logger.session_id][i].details = ContextDetails(FullContext)

\* ---- what moves the step
\* events a stage's computation reports
ComputationEvents ==
    {"ai_variable_selection", "data_enrichment_complete", "data_enrichment_error",
     "insights_generated", "workflow_summary_generated", "report_exported"}

\* the interaction completed a stage's computation: a file was put on the
\* uploader or the sample loaded, or one of the later stages reported
StageComputed ==
    \/ uploaded_file' # uploaded_file /\ uploaded_file' # NoFile
    \/ client_data' # client_data /\ ~IsReset
    \/ \E i \in 1..Len(out') : out'[i].k # "log" /\ out'[i].a \in ComputationEvents

\* C17: the step number changes only by a forward continue (+1), a sidebar
\* jump to a lower step, refine 6 -> 3 or a reset to 1; an interaction that
\* completes a stage's computation leaves the step where it was.
C17_StepMovesOnlyOnUserMoves ==
    [][/\ step' # step =>
            \/ step' = step + 1 /\ step' <= 6
            \/ step' \in 1..(step - 1) /\ out' = <<>>
            \/ step = 6 /\ step' = 3 /\ \E i \in 1..Len(out') : out'[i].a = "analysis_refinement"
            \/ IsReset /\ step' = 1
       /\ StageComputed => step' = step]_vars

\* the report just generated, the session still at step 5
C17_Witness ==
    /\ step = 5
    /\ out = <<[k |-> "log", a |-> "insights_generated"],
               [k |-> "success", a |-> "insights_generated"]>>
    /\ HasReport(insights)

\* ---- range of the step
\* the session is fresh: just reset, or without client records yet
IsFresh ==
    \/ \E i \in 1..Len(out) : out[i].k = "reset"
    \/ client_data = None

\* C18: the step is always one of 1..6, and a fresh session (the one the
\* program starts with and the one every reset leaves) is at step 1.
C18_StepInRange ==
    /\ step \in 1..6
    /\ IsFresh => step = 1

\* "Start Over" pressed in a session that had got as far as enrichment
C18_Witness ==
    /\ step = 1
    /\ out = <<[k |-> "reset", a |-> "start_over"]>>
    /\ \E id \in SessionIds : CountEvents(files[id], "data_enrichment_complete") > 0

\* ---- the markdown-table parser on its own
ParseTableCalled == probe # None /\ probe.fn = "parse_markdown_table"

\* the variable names of the well-formed rows of a table body, in table order
RECURSIVE WellFormedNames(_)
WellFormedNames(body) ==
    IF body = <<>> THEN <<>>
    ELSE (IF Head(body).kind = "row" THEN <<Head(body).variable>> ELSE <<>>)
         \o WellFormedNames(Tail(body))

EnrichmentCalled == probe # None /\ probe.fn = "show_data_enrichment"

\* the data_enrichment_complete entry the call wrote
EnrichmentEntry == Last(answer.files[logger.session_id])

\* the call read the enriched file and wrote its entry
EnrichedFromFile ==
    /\ EnrichmentCalled
    /\ probe.fixture.exists
    /\ EnrichmentEntry.event = "data_enrichment_complete"

Abs(x) == IF x < 0 THEN 0 - x ELSE x

\* permille is num / den in tenths of a percent, rounded to the nearest
NearestPermille(permille, num, den) == 2 * Abs(permille * den - 1000 * num) <= den

\* C20 (as stated): the match rate written to data_enrichment_complete is
\* enriched_count / input_count, to a tenth of a percent, for every enriched
\* row count and every input row count above zero.
C20_MatchRateIsRatio ==
    EnrichedFromFile =>
        NearestPermille(EnrichmentEntry.details.match_rate_percent,
                        probe.fixture.df.n, probe.client)

\* C20 (amended): the match rate written to data_enrichment_complete is
\* min(enriched_count, input_count) / input_count, to a tenth of a percent,
\* so never above 100.0%; without the enriched file the entry says 87.3%
\* whatever the counts.
C20_MatchRateClamped ==
    /\ EnrichedFromFile =>
          /\ NearestPermille(EnrichmentEntry.details.match_rate_percent,
                             Min(probe.fixture.df.n, probe.client), probe.client)
          /\ EnrichmentEntry.details.match_rate_percent <= 1000
    /\ (EnrichmentCalled /\ ~probe.fixture.exists) =>
          EnrichmentEntry.details.match_rate_percent = 873

\* 480 enriched rows for 500 client rows: 96.0%
C20_Witness ==
    /\ EnrichedFromFile
    /\ probe.client = 500
    /\ probe.fixture.df.n = 480
    /\ EnrichmentEntry.details.match_rate_percent = 960
    /\ answer.enriched_data.n = 480

\* ---- counts of the report
\* C21: after the insight-generation action over an enriched table of R rows
\* with V selected variables, the stored report has records_analyzed = R and
\* variables_analyzed = V, and the insights_generated entry just written
\* records the same two numbers.
C21_CountsRecorded ==
    (step = 5 /\ JustLogged("insights_generated") /\ IsDataFrame(enriched_data)) =>
        /\ Get(insights, "records_analyzed", -1) = enriched_data.n
        /\ Get(insights, "variables_analyzed", -1) = Len(selected_variables)
        /\ Get(Last(files[logger.session_id]).details, "records_analyzed", -1)
              = enriched_data.n
        /\ Get(Last(files[logger.session_id]).details, "variables_analyzed", -1)
              = Len(selected_variables)

\* ---- stored recommendations
\* C22: every recommendation stored in the session's selected-variable
\* sequence has a variable and a rationale, both non-empty, whatever the
\* completion service answered.
C22_RecommendationsComplete ==
    \A i \in 1..Len(selected_variables) :
        /\ {"variable", "rationale"} \subseteq DOMAIN selected_variables[i]
        /\ selected_variables[i].variable # ""
        /\ selected_variables[i].rationale # ""

\* ---- a file that does not parse
\* the interaction was a run of step 1 in which pd.read_csv raised
ParseFailedStep ==
    /\ step = 1
    /\ out' = <<[k |-> "error", a |-> "data_upload"],
                [k |-> "log", a |-> "data_upload_error"]>>
    /\ uploaded_file' # NoFile
    /\ ~uploaded_file'.parses
    /\ <<files, uploaded_file>> # <<files', uploaded_file'>>

\* C23: when the uploaded file does not parse, the error is shown, the
\* session stays at step 1 with the uploader still drawn, the client records
\* keep the value they had, and the log gains exactly one entry, a
\* data_upload_error (so no data_upload entry for that attempt).
C23_ParseFailureIsRecoverable ==
    [][ParseFailedStep =>
        /\ step' = 1
        /\ client_data' = client_data
        /\ AppendsOne("data_upload_error")
        /\ UNCHANGED <<business_context, selected_variables, enriched_data,
                       insights, logger>>]_vars

\* the sample was loaded, then a broken file dropped on the uploader: the
\* sample is still the client record set
C23_Witness ==
    /\ step = 1
    /\ uploaded_file = BrokenCsv
    /\ out = <<[k |-> "error", a |-> "data_upload"],
               [k |-> "log", a |-> "data_upload_error"]>>
    /\ client_data = create_sample_data
    /\ Last(files[logger.session_id]).event = "data_upload_error"

\* ---- denominators of the local statistics
\* the rows of a column that hold a value
PresentRows(col, na) == SumOver(col, DOMAIN col \ {na})

\* the rows of a column holding one of the given values, as a percentage of
\* the rows that hold a value
PercentOfPresent(col, na, values) ==
    Frac(SumOver(col, (DOMAIN col \ {na}) \cap values) * 100, PresentRows(col, na))

\* C24: each locally computed percentage has as denominator the number of
\* rows whose value for its column is present; rows with a missing value are
\* left out of the denominator (so the three age bands add up to 100).
C24_MissingRowsExcluded ==
    (AnalyzeCalled /\ ~answer.raised /\ "raw_stats" \in DOMAIN answer.value) =>
        /\ ("AGE" \in DOMAIN probe.df.cols /\ PresentRows(probe.df.cols["AGE"], NaAge) > 0) =>
              /\ answer.value.raw_stats.age_ranges.under_30
                    = PercentOfPresent(probe.df.cols["AGE"], NaAge, 0..29)
              /\ answer.value.raw_stats.age_ranges.age_30_50
                    = PercentOfPresent(probe.df.cols["AGE"], NaAge, 30..49)
              /\ answer.value.raw_stats.age_ranges.over_50
                    = PercentOfPresent(probe.df.cols["AGE"], NaAge, 50..120)
        /\ ("URBANICITY" \in DOMAIN probe.df.cols
                /\ PresentRows(probe.df.cols["URBANICITY"], NaText) > 0) =>
              answer.value.raw_stats.urban_percent
                 = PercentOfPresent(probe.df.cols["URBANICITY"], NaText, UrbanValues)
        /\ ("EDUCATION" \in DOMAIN probe.df.cols
                /\ PresentRows(probe.df.cols["EDUCATION"], NaText) > 0) =>
              answer.value.raw_stats.college_plus_percent
                 = PercentOfPresent(probe.df.cols["EDUCATION"], NaText, CollegePlusValues)
        /\ ("PREMIUM_INCOME_HH" \in DOMAIN probe.df.cols
                /\ PresentRows(probe.df.cols["PREMIUM_INCOME_HH"], NaText) > 0) =>
              answer.value.raw_stats.high_income_percent
                 = PercentOfPresent(probe.df.cols["PREMIUM_INCOME_HH"], NaText, HighIncomeValues)

\* ---- a log file that cannot be written
\* what a handler leaves in the session and on the page: its result without
\* the log files, its trace without the log entries
Outcome(run) ==
    [x \in (DOMAIN run \ {"files"}) |->
        IF x = "out" THEN SelectSeq(run.out, LAMBDA e : e.k # "log") ELSE run[x]]

\* C25: a log entry that cannot be written changes nothing else: the handler
\* ends as it does when the write succeeds, with the same session fields and
\* the same messages; the log files are left as they were.
C25_LogFailureIsHarmless ==
    (probe # None /\ probe.fn = "log_failure") =>
        /\ Outcome(answer.failed) = Outcome(answer.written)
        /\ answer.failed.files = files
        /\ answer.written.files # files

\* enrichment with a log file that cannot be written: the enriched records
\* are stored all the same
C25_Witness ==
    /\ probe # None
    /\ probe.fn = "log_failure"
    /\ probe.handler = "show_data_enrichment"
    /\ answer.failed.enriched_data = SampleEnriched
    /\ answer.failed.files = files
    /\ Len(answer.written.files[logger.session_id]) = Len(files[logger.session_id]) + 1

\* ---- prerequisites of the steps
\* C26: the prerequisites of every step up to the current one hold: client
\* records from step 2 on, a captured business context from step 3 on,
\* selected variables from step 4 on, enriched records from step 5 on and a
\* report with displayable text at step 6.
C26_PrerequisitesHold ==
    /\ step >= 2 => client_data # None
    /\ step >= 3 => Truthy(business_context)
    /\ step >= 4 => selected_variables # <<>>
    /\ step >= 5 => enriched_data # None
    /\ step = 6 => HasReport(insights)

\* the export step reached, with everything the earlier steps produce
C26_Witness ==
    /\ step = 6
    /\ client_data = create_sample_data
    /\ business_context = FullContext
    /\ selected_variables = GoodVariables
    /\ enriched_data = SampleEnriched
    /\ HasReport(insights)

\* ---- a failed enrichment
\* the interaction was "Start Data Enrichment" ending in its except branch
EnrichmentErrorStep ==
    /\ step = 4
    /\ files' # files
    /\ \E i \in 1..Len(out') : out'[i] = [k |-> "log", a |-> "data_enrichment_error"]

\* C27: an enrichment that ends in its error branch leaves the enriched
\* records as they were, and does not by itself open the way to step 5.
C27_FailedEnrichmentStoresNothing ==
    [][EnrichmentErrorStep =>
        /\ enriched_data' = enriched_data
        /\ (enriched_data = None => ~(ENABLED ContinueToInsights)')]_vars

\* ---- freshness of what is exported
\* the position of the last entry of a log with one of the given event
\* types, 0 when there is none
RECURSIVE LastIndexOf(_, _)
LastIndexOf(log, types) ==
    IF log = <<>> THEN 0
    ELSE IF log[Len(log)].event \in types THEN Len(log)
    ELSE LastIndexOf(SubSeq(log, 1, Len(log) - 1), types)

\* C28: at step 6 the enriched records and the report are younger than the
\* selected variables: in the session's log the last variable selection is
\* followed by an enrichment run and by a report generation.
C28_ExportIsFresh ==
    step = 6 =>
        /\ LastIndexOf(files[logger.session_id], {"ai_variable_selection"})
              < LastIndexOf(files[logger.session_id],
                            {"data_enrichment_complete", "data_enrichment_error"})
        /\ LastIndexOf(files[logger.session_id], {"ai_variable_selection"})
              < LastIndexOf(files[logger.session_id], {"insights_generated"})

\* ---- one upload, one entry
\* the interaction was a run of step 1 with the file that was already on the
\* uploader (no new file chosen, no reset)
RerunWithFile ==
    /\ step = 1
    /\ uploaded_file # NoFile
    /\ uploaded_file' \in {uploaded_file, NoFile}
    /\ ~IsReset

\* C29: a run of step 1 with the same file still attached appends no further
\* data_upload entry: each dataset loaded is logged once.
C29_UploadLoggedOnce ==
    [][RerunWithFile =>
        CountEvents(files'[logger.session_id], "data_upload")
            = CountEvents(files[logger.session_id], "data_upload")]_vars

====
